---- MODULE Spec2Model ----
(***************************************************************************)
(* Model of cmd/compile/internal/ssa/func.go: the construction API of an   *)
(* SSA function graph.  A Func owns two id allocators and a list of        *)
(* Blocks; a Block owns an ordered list of Values; each NewValue*          *)
(* constructor builds one Value, takes an id from the Func's value         *)
(* allocator and appends the Value to the Block it was invoked on.         *)
(*                                                                         *)
(* Pointers are heap addresses: a *Block is an index into blocks, a *Value *)
(* an index into values, in order of allocation; Nil is the nil pointer.   *)
(***************************************************************************)
EXTENDS Integers, Sequences, FiniteSets, TLC

\* Bounds of the exploration: how many Blocks and Values are ever allocated.
MaxBlocks == 2
MaxValues == 3

\* The Func objects under construction (two, so that independence is visible).
Funcs == {"A", "B"}

Nil == 0

\* Inputs the builder may pass.  Opcode, type and kind are opaque tokens.
Kinds == {"BlockPlain"}
Ops == {"OpAdd"}
OpConst == "OpConst"
Types == {"TypeInt64"}
Lines == {3}
AuxInts == {5}

\* interface{} values: the dynamic type and the value.  NilAux is the zero
\* interface; Payloads are what a caller passes as aux.
NilAux == [kind |-> "nil", val |-> 0]
Int64Payload == [kind |-> "int64", val |-> 5]
SymPayload == [kind |-> "string", val |-> 1]
Payloads == {Int64Payload, SymPayload}

\* Length of the array Value.argstorage embedded in each Value.
ArgStorageLen == 3

VARIABLES
    funcs,   \* funcs[f]: the fields Blocks, Entry, bid, vid of Func f
    blocks,  \* heap of Block objects: fields ID, Kind, Func, Values
    values,  \* heap of Value objects
    status,  \* "running", "fatal" (log.Fatalf exited) or "panic" (nil dereference)
    last     \* the most recent call: its name, arguments and returned pointer

vars == <<funcs, blocks, values, status, last>>

----------------------------------------------------------------------------
\* idAlloc: a counter; get returns it and increments it, num returns it.

idAllocGet(a) == [id |-> a, alloc |-> a + 1]

idAllocNum(a) == a

----------------------------------------------------------------------------
\* Slices of *Value.  A slice is a view of a backing array: either the
\* Value's own argstorage array or a separately allocated array.

NilSlice == [arr |-> "nil", len |-> 0, elems |-> <<>>]

ZeroStorage == [i \in 1..ArgStorageLen |-> Nil]

\* v.argstorage[:n]
SliceArgstorage(n) == [arr |-> "argstorage", len |-> n, elems |-> <<>>]

\* []*Value{...}: a fresh backing array holding elems
SliceLiteral(elems) == [arr |-> "heap", len |-> Len(elems), elems |-> elems]

\* v.Args[i] = arg, written through the slice into its backing array
SetArg(v, i, arg) ==
    IF v.Args.arr = "argstorage"
    THEN [v EXCEPT !.argstorage[i + 1] = arg]
    ELSE [v EXCEPT !.Args.elems[i + 1] = arg]

\* The operand list as read through v.Args: elements 0..len-1 of the backing array
ArgsRead(v) ==
    IF v.Args.arr = "argstorage"
    THEN SubSeq(v.argstorage, 1, v.Args.len)
    ELSE SubSeq(v.Args.elems, 1, v.Args.len)

----------------------------------------------------------------------------
\* A &Value{...} composite literal; fields a constructor does not name are
\* passed as their zero value (0, NilAux).
ValueLit(id, op, t, auxint, aux, b, line) ==
    [ID |-> id, Op |-> op, Type |-> t, AuxInt |-> auxint, Aux |-> aux,
     Block |-> b, Line |-> line, Args |-> NilSlice, argstorage |-> ZeroStorage]

\* b.Func.vid.get(): the id the next Value created on block b receives
NextValueID(b) == idAllocGet(funcs[blocks[b].Func].vid).id

\* The record kept of a call
Call(name, f, b, line, auxint, aux, args, v) ==
    [name |-> name, f |-> f, b |-> b, line |-> line, auxint |-> auxint,
     aux |-> aux, args |-> args, v |-> v]

\* The state change shared by the constructors once Value v is built:
\* vid.get() advances the owning Func's allocator, b.Values = append(b.Values, v),
\* and the pointer to v is returned.
Emit(b, v) ==
    /\ values' = Append(values, v)
    /\ blocks' = [blocks EXCEPT ![b].Values = Append(@, Len(values) + 1)]
    /\ funcs' = [funcs EXCEPT ![blocks[b].Func].vid = idAllocGet(@).alloc]
    /\ status' = status

\* log.Fatalf: the process exits; nothing else is touched.
Fatalf ==
    /\ status' = "fatal"
    /\ UNCHANGED <<funcs, blocks, values>>

----------------------------------------------------------------------------
NumBlocks(f) == idAllocNum(funcs[f].bid)

NumValues(f) == idAllocNum(funcs[f].vid)

\* Variant of NewBlock: the allocator is used through a copy, so the Func's
\* bid is never advanced.
NewBlockNoAdvance(f, kind) ==
    LET g == idAllocGet(funcs[f].bid)
        b == [ID |-> g.id, Kind |-> kind, Func |-> f, Values |-> <<>>]
    IN  /\ Len(blocks) < MaxBlocks
        /\ blocks' = Append(blocks, b)
        /\ funcs' = [funcs EXCEPT ![f].Blocks = Append(@, Len(blocks) + 1)]
        /\ UNCHANGED <<values, status>>

\* Variant of NewBlock: one block allocator shared by every Func.
NewBlockSharedAlloc(f, kind) ==
    LET g == idAllocGet(funcs[f].bid)
        b == [ID |-> g.id, Kind |-> kind, Func |-> f, Values |-> <<>>]
    IN  /\ Len(blocks) < MaxBlocks
        /\ blocks' = Append(blocks, b)
        /\ funcs' = [h \in Funcs |->
                        IF h = f
                        THEN [funcs[h] EXCEPT !.bid = g.alloc,
                                              !.Blocks = Append(@, Len(blocks) + 1)]
                        ELSE [funcs[h] EXCEPT !.bid = idAllocGet(@).alloc]]
        /\ UNCHANGED <<values, status>>

NewBlock(f, kind) ==
    LET g == idAllocGet(funcs[f].bid)
        b == [ID |-> g.id, Kind |-> kind, Func |-> f, Values |-> <<>>]
    IN  /\ Len(blocks) < MaxBlocks
        /\ blocks' = Append(blocks, b)
        /\ funcs' = [funcs EXCEPT ![f].bid = g.alloc,
                                  ![f].Blocks = Append(@, Len(blocks) + 1)]
        /\ UNCHANGED <<values, status>>

\* The builder's assignment f.Entry = b, b a Block of f.
SetEntry(f, b) ==
    /\ blocks[b].Func = f
    /\ funcs[f].Entry # b
    /\ funcs' = [funcs EXCEPT ![f].Entry = b]
    /\ UNCHANGED <<blocks, values, status>>

\* Variant of NewValue0: the Block field is set to the Func's first Block.
NewValue0WrongBlock(b, line, op, t) ==
    LET v0 == ValueLit(NextValueID(b), op, t, 0, NilAux,
                       funcs[blocks[b].Func].Blocks[1], 0)
        v == [v0 EXCEPT !.Args = SliceArgstorage(0)]
    IN  /\ Len(values) < MaxValues
        /\ Emit(b, v)

NewValue0(b, line, op, t) ==
    LET v0 == ValueLit(NextValueID(b), op, t, 0, NilAux, b, 0)
        v == [v0 EXCEPT !.Args = SliceArgstorage(0)]
    IN  /\ Len(values) < MaxValues
        /\ Emit(b, v)

NewValue0I(b, line, op, t, auxint) ==
    LET v0 == ValueLit(NextValueID(b), op, t, auxint, NilAux, b, 0)
        v == [v0 EXCEPT !.Args = SliceArgstorage(0)]
    IN  /\ Len(values) < MaxValues
        /\ Emit(b, v)

\* Variant of NewValue0A: the int64 check comes after the Value was built
\* and appended.
NewValue0ALateCheck(b, line, op, t, aux) ==
    LET v0 == ValueLit(NextValueID(b), op, t, 0, aux, b, line)
        v == [v0 EXCEPT !.Args = SliceArgstorage(0)]
    IN  /\ Len(values) < MaxValues
        /\ values' = Append(values, v)
        /\ blocks' = [blocks EXCEPT ![b].Values = Append(@, Len(values) + 1)]
        /\ funcs' = [funcs EXCEPT ![blocks[b].Func].vid = idAllocGet(@).alloc]
        /\ status' = IF aux.kind = "int64" THEN "fatal" ELSE status

NewValue0A(b, line, op, t, aux) ==
    LET v0 == ValueLit(NextValueID(b), op, t, 0, aux, b, line)
        v == [v0 EXCEPT !.Args = SliceArgstorage(0)]
    IN  /\ Len(values) < MaxValues
        /\ IF aux.kind = "int64" THEN Fatalf ELSE Emit(b, v)

NewValue0IA(b, line, op, t, auxint, aux) ==
    LET v0 == ValueLit(NextValueID(b), op, t, auxint, aux, b, 0)
        v == [v0 EXCEPT !.Args = SliceArgstorage(0)]
    IN  /\ Len(values) < MaxValues
        /\ Emit(b, v)

\* Variant of NewValue1: Args is a separately allocated one-element slice.
NewValue1Alloc(b, line, op, t, arg) ==
    LET v0 == ValueLit(NextValueID(b), op, t, 0, NilAux, b, 0)
        v == [v0 EXCEPT !.Args = SliceLiteral(<<arg>>)]
    IN  /\ Len(values) < MaxValues
        /\ Emit(b, v)

NewValue1(b, line, op, t, arg) ==
    LET v0 == ValueLit(NextValueID(b), op, t, 0, NilAux, b, 0)
        v1 == [v0 EXCEPT !.Args = SliceArgstorage(1)]
        v == SetArg(v1, 0, arg)
    IN  /\ Len(values) < MaxValues
        /\ Emit(b, v)

NewValue1I(b, line, op, t, auxint, arg) ==
    LET v0 == ValueLit(NextValueID(b), op, t, auxint, NilAux, b, 0)
        v1 == [v0 EXCEPT !.Args = SliceArgstorage(1)]
        v == SetArg(v1, 0, arg)
    IN  /\ Len(values) < MaxValues
        /\ Emit(b, v)

NewValue1A(b, line, op, t, aux, arg) ==
    LET v0 == ValueLit(NextValueID(b), op, t, 0, aux, b, line)
        v1 == [v0 EXCEPT !.Args = SliceArgstorage(1)]
        v == SetArg(v1, 0, arg)
    IN  /\ Len(values) < MaxValues
        /\ Emit(b, v)

NewValue1IA(b, line, op, t, auxint, aux, arg) ==
    LET v0 == ValueLit(NextValueID(b), op, t, auxint, aux, b, 0)
        v1 == [v0 EXCEPT !.Args = SliceArgstorage(1)]
        v == SetArg(v1, 0, arg)
    IN  /\ Len(values) < MaxValues
        /\ Emit(b, v)

\* Variant of NewValue2: the two operands are stored in each other's slot.
NewValue2Swapped(b, line, op, t, arg0, arg1) ==
    LET v0 == ValueLit(NextValueID(b), op, t, 0, NilAux, b, line)
        v1 == [v0 EXCEPT !.Args = SliceArgstorage(2)]
        v == SetArg(SetArg(v1, 0, arg1), 1, arg0)
    IN  /\ Len(values) < MaxValues
        /\ Emit(b, v)

\* Variant of NewValue2: the Value is put at the front of b.Values.
NewValue2Prepend(b, line, op, t, arg0, arg1) ==
    LET v0 == ValueLit(NextValueID(b), op, t, 0, NilAux, b, line)
        v1 == [v0 EXCEPT !.Args = SliceArgstorage(2)]
        v == SetArg(SetArg(v1, 0, arg0), 1, arg1)
    IN  /\ Len(values) < MaxValues
        /\ values' = Append(values, v)
        /\ blocks' = [blocks EXCEPT ![b].Values = <<Len(values) + 1>> \o @]
        /\ funcs' = [funcs EXCEPT ![blocks[b].Func].vid = idAllocGet(@).alloc]
        /\ status' = status

NewValue2(b, line, op, t, arg0, arg1) ==
    LET v0 == ValueLit(NextValueID(b), op, t, 0, NilAux, b, line)
        v1 == [v0 EXCEPT !.Args = SliceArgstorage(2)]
        v == SetArg(SetArg(v1, 0, arg0), 1, arg1)
    IN  /\ Len(values) < MaxValues
        /\ Emit(b, v)

NewValue3(b, line, op, t, arg0, arg1, arg2) ==
    LET v0 == ValueLit(NextValueID(b), op, t, 0, NilAux, b, line)
        v == [v0 EXCEPT !.Args = SliceLiteral(<<arg0, arg1, arg2>>)]
    IN  /\ Len(values) < MaxValues
        /\ Emit(b, v)

\* Variant of ConstInt: the constant goes to the Func's newest Block.
ConstIntNewestBlock(f, line, t, c) ==
    IF funcs[f].Entry = Nil
    THEN /\ status' = "panic"
         /\ UNCHANGED <<funcs, blocks, values>>
    ELSE NewValue0I(funcs[f].Blocks[Len(funcs[f].Blocks)], line, OpConst, t, c)

\* f.Entry.NewValue0I(line, OpConst, t, c); a nil f.Entry is dereferenced
\* by NewValue0I (b.Func) and the runtime panics.
ConstInt(f, line, t, c) ==
    IF funcs[f].Entry = Nil
    THEN /\ status' = "panic"
         /\ UNCHANGED <<funcs, blocks, values>>
    ELSE NewValue0I(funcs[f].Entry, line, OpConst, t, c)

----------------------------------------------------------------------------
BlockPtrs == 1..Len(blocks)

ValuePtrs == 1..Len(values)

\* The Values a builder of Func f can pass as operands: those of f.
Operands(b) == {a \in ValuePtrs : blocks[values[a].Block].Func = blocks[b].Func}

Init ==
    /\ funcs = [f \in Funcs |-> [Blocks |-> <<>>, Entry |-> Nil, bid |-> 0, vid |-> 0]]
    /\ blocks = <<>>
    /\ values = <<>>
    /\ status = "running"
    /\ last = Call("new", "", Nil, 0, 0, NilAux, <<>>, Nil)

Running == status = "running"

\* The pointer a call returned: the Value it allocated, if any.
Returned == IF Len(values') > Len(values) THEN Len(values') ELSE Nil

\* Bookkeeping of the call just made (not program state).
Record(name, f, b, line, auxint, aux, args) ==
    last' = Call(name, f, b, line, auxint, aux, args, Returned)

RecordV(name, b, line, auxint, aux, args) ==
    Record(name, blocks[b].Func, b, line, auxint, aux, args)

Next ==
    \/ Running /\ \E f \in Funcs, k \in Kinds :
            NewBlock(f, k) /\ Record("NewBlock", f, Len(blocks'), 0, 0, NilAux, <<>>)
    \/ Running /\ \E f \in Funcs, b \in BlockPtrs :
            SetEntry(f, b) /\ Record("SetEntry", f, b, 0, 0, NilAux, <<>>)
    \/ Running /\ \E b \in BlockPtrs, l \in Lines, o \in Ops, t \in Types :
            NewValue0(b, l, o, t) /\ RecordV("NewValue0", b, l, 0, NilAux, <<>>)
    \/ Running /\ \E b \in BlockPtrs, l \in Lines, o \in Ops, t \in Types, i \in AuxInts :
            NewValue0I(b, l, o, t, i) /\ RecordV("NewValue0I", b, l, i, NilAux, <<>>)
    \/ Running /\ \E b \in BlockPtrs, l \in Lines, o \in Ops, t \in Types, x \in Payloads :
            NewValue0A(b, l, o, t, x) /\ RecordV("NewValue0A", b, l, 0, x, <<>>)
    \/ Running /\ \E b \in BlockPtrs, l \in Lines, o \in Ops, t \in Types, i \in AuxInts,
                     x \in Payloads :
            NewValue0IA(b, l, o, t, i, x) /\ RecordV("NewValue0IA", b, l, i, x, <<>>)
    \/ Running /\ \E b \in BlockPtrs, l \in Lines, o \in Ops, t \in Types :
            \E a \in Operands(b) :
                NewValue1(b, l, o, t, a) /\ RecordV("NewValue1", b, l, 0, NilAux, <<a>>)
    \/ Running /\ \E b \in BlockPtrs, l \in Lines, o \in Ops, t \in Types, i \in AuxInts :
            \E a \in Operands(b) :
                NewValue1I(b, l, o, t, i, a) /\ RecordV("NewValue1I", b, l, i, NilAux, <<a>>)
    \/ Running /\ \E b \in BlockPtrs, l \in Lines, o \in Ops, t \in Types, x \in Payloads :
            \E a \in Operands(b) :
                NewValue1A(b, l, o, t, x, a) /\ RecordV("NewValue1A", b, l, 0, x, <<a>>)
    \/ Running /\ \E b \in BlockPtrs, l \in Lines, o \in Ops, t \in Types, i \in AuxInts,
                     x \in Payloads :
            \E a \in Operands(b) :
                NewValue1IA(b, l, o, t, i, x, a) /\ RecordV("NewValue1IA", b, l, i, x, <<a>>)
    \/ Running /\ \E b \in BlockPtrs, l \in Lines, o \in Ops, t \in Types :
            \E a0, a1 \in Operands(b) :
                NewValue2(b, l, o, t, a0, a1)
                    /\ RecordV("NewValue2", b, l, 0, NilAux, <<a0, a1>>)
    \/ Running /\ \E b \in BlockPtrs, l \in Lines, o \in Ops, t \in Types :
            \E a0, a1, a2 \in Operands(b) :
                NewValue3(b, l, o, t, a0, a1, a2)
                    /\ RecordV("NewValue3", b, l, 0, NilAux, <<a0, a1, a2>>)
    \/ Running /\ \E f \in Funcs, l \in Lines, t \in Types, c \in AuxInts :
            ConstInt(f, l, t, c)
                /\ Record("ConstInt", f, funcs[f].Entry, l, c, NilAux, <<>>)

Spec == Init /\ [][Next]_vars

----------------------------------------------------------------------------
\* Vocabulary of the properties.

\* The Blocks and Values of Func f, in order of creation.
BlocksOf(f) == SelectSeq(blocks, LAMBDA b : b.Func = f)

ValuesOf(f) == SelectSeq(values, LAMBDA v : blocks[v.Block].Func = f)

IDs(s) == {s[i].ID : i \in 1..Len(s)}

StrictlyIncreasingIDs(s) == \A i, j \in 1..Len(s) : i < j => s[i].ID < s[j].ID

OnePastMax(S) == IF S = {} THEN 0 ELSE 1 + CHOOSE m \in S : \A x \in S : x <= m

\* How often pointer p occurs in the sequence s
Count(s, p) == Cardinality({i \in 1..Len(s) : s[i] = p})

\* The last call returned a Value
ReturnedValue == last.v # Nil

ValueCalls == {"NewValue0", "NewValue0I", "NewValue0A", "NewValue0IA", "NewValue1",
               "NewValue1I", "NewValue1A", "NewValue1IA", "NewValue2", "NewValue3",
               "ConstInt"}

\* Everything Func f owns: its fields, its Blocks and their Values.
FuncState(f) ==
    <<funcs[f],
      [p \in {q \in BlockPtrs : blocks[q].Func = f} |-> blocks[p]],
      [v \in {w \in ValuePtrs : blocks[values[w].Block].Func = f} |-> values[v]]>>

----------------------------------------------------------------------------
\* C1 (stated as claimed): a constructor given an int64 aux payload exits
\* through log.Fatalf and returns nothing, so no Value ever holds an int64
\* in its Aux field.
AuxExclusivity ==
    /\ (last.name \in ValueCalls /\ last.aux.kind = "int64")
            => (status = "fatal" /\ last.v = Nil)
    /\ \A v \in ValuePtrs : values[v].Aux.kind # "int64"

\* C2: a step that ends in log.Fatalf leaves every Block's Values, every
\* Func's Blocks and both id allocators (NumValues, NumBlocks) as they were.
FatalLeavesNoPartialState ==
    [][status' = "fatal" =>
            /\ UNCHANGED <<funcs, blocks, values>>
            /\ \A f \in Funcs : NumValues(f)' = NumValues(f) /\ NumBlocks(f)' = NumBlocks(f)]_vars

FatalReached ==
    /\ status = "fatal"
    /\ last.name = "NewValue0A"
    /\ last.aux.kind = "int64"
    /\ Len(values) > 0

\* C3: per Func, the block ids and the value ids are strictly increasing in
\* order of creation (across all Blocks of the Func), and NumBlocks / NumValues
\* is one past the largest id issued, 0 when none was.
IdMonotonicity ==
    \A f \in Funcs :
        /\ StrictlyIncreasingIDs(BlocksOf(f))
        /\ StrictlyIncreasingIDs(ValuesOf(f))
        /\ NumBlocks(f) = OnePastMax(IDs(BlocksOf(f)))
        /\ NumValues(f) = OnePastMax(IDs(ValuesOf(f)))

IdsIssuedOnTwoBlocks ==
    \E f \in Funcs :
        /\ Len(BlocksOf(f)) = 2
        /\ Len(ValuesOf(f)) = 3
        /\ \A i \in 1..Len(funcs[f].Blocks) : blocks[funcs[f].Blocks[i]].Values # <<>>

\* C4: every Block is exactly once in the Blocks of the Func it was created
\* on; every Value is exactly once in the Values of the Block it was created
\* on and in no other Block's; Values are listed in order of creation.
MembershipUniqueness ==
    /\ \A p \in BlockPtrs : Count(funcs[blocks[p].Func].Blocks, p) = 1
    /\ \A v \in ValuePtrs : \A b \in BlockPtrs :
            Count(blocks[b].Values, v) = IF values[v].Block = b THEN 1 ELSE 0
    /\ \A b \in BlockPtrs : \A i, j \in 1..Len(blocks[b].Values) :
            i < j => blocks[b].Values[i] < blocks[b].Values[j]

TwoValuesInOneBlock ==
    \E b, c \in BlockPtrs :
        /\ b # c
        /\ Len(blocks[b].Values) = 2
        /\ Len(blocks[c].Values) = 1
        /\ blocks[c].Values[1] < blocks[b].Values[2]
        /\ blocks[b].Values[1] < blocks[c].Values[1]

\* C5: the operand list read back from the Value just returned is the list
\* of operands passed to the constructor, in order (empty for arity 0),
\* whichever backing array Args views.
OperandOrder ==
    ReturnedValue => ArgsRead(values[last.v]) = last.args

ThreeOperandsRead ==
    /\ last.name = "NewValue3"
    /\ ReturnedValue
    /\ last.args[1] # last.args[2]
    /\ values[last.v].Args.arr = "heap"
    /\ \E w \in ValuePtrs :
            /\ values[w].Args.arr = "argstorage"
            /\ values[w].Args.len = 1

\* C6: the Value ConstInt returns is the last element of f.Entry.Values, has
\* Block = f.Entry, Op = OpConst and AuxInt = the constant, and is in no other
\* Block's Values; a ConstInt step changes no other Block's Values.
EntryHomingState ==
    (last.name = "ConstInt" /\ ReturnedValue) =>
        LET e == funcs[last.f].Entry
            v == values[last.v]
        IN  /\ e # Nil
            /\ blocks[e].Func = last.f
            /\ v.Block = e
            /\ v.Op = OpConst
            /\ v.AuxInt = last.auxint
            /\ blocks[e].Values # <<>>
            /\ blocks[e].Values[Len(blocks[e].Values)] = last.v
            /\ \A b \in BlockPtrs \ {e} : Count(blocks[b].Values, last.v) = 0

EntryHoming ==
    /\ []EntryHomingState
    /\ [][last'.name = "ConstInt" =>
            \A b \in BlockPtrs \ {funcs[last'.f].Entry} :
                blocks'[b].Values = blocks[b].Values]_vars

ConstAfterOtherBlock ==
    /\ last.name = "ConstInt"
    /\ ReturnedValue
    /\ \E b \in BlockPtrs :
            /\ b # funcs[last.f].Entry
            /\ b > funcs[last.f].Entry
            /\ blocks[b].Func = last.f
            /\ blocks[b].Values # <<>>

\* C7: a call on one Func changes nothing another Func owns, and each Func's
\* ids, counts and Blocks are those its own calls alone produce: ids 0, 1, ...
\* in order of creation, counts equal to the number of its own Blocks and
\* Values, Blocks listing exactly its own Blocks in order of creation.
AloneState(f) ==
    /\ \A i \in 1..Len(BlocksOf(f)) : BlocksOf(f)[i].ID = i - 1
    /\ \A i \in 1..Len(ValuesOf(f)) : ValuesOf(f)[i].ID = i - 1
    /\ NumBlocks(f) = Len(BlocksOf(f))
    /\ NumValues(f) = Len(ValuesOf(f))
    /\ Len(funcs[f].Blocks) = Len(BlocksOf(f))
    /\ \A i \in 1..Len(funcs[f].Blocks) : blocks[funcs[f].Blocks[i]] = BlocksOf(f)[i]

FuncIndependence ==
    /\ [](\A f \in Funcs : AloneState(f))
    /\ [][\A g \in Funcs : g # last'.f => FuncState(g)' = FuncState(g)]_vars

BothFuncsBuilt ==
    /\ last.f = "A"
    /\ ReturnedValue
    /\ ValuesOf("B") # <<>>
    /\ Len(ValuesOf("A")) = 2
    /\ funcs["B"].Entry # Nil

\* C8: every Value in b.Values has Block = b and every Block in f.Blocks has
\* Func = f; no step changes the Block or the membership of a Value that
\* exists, nor the Func or the membership of a Block that exists.
BackReferenceState ==
    /\ \A b \in BlockPtrs : \A i \in 1..Len(blocks[b].Values) :
            values[blocks[b].Values[i]].Block = b
    /\ \A f \in Funcs : \A i \in 1..Len(funcs[f].Blocks) :
            blocks[funcs[f].Blocks[i]].Func = f

BackReferenceStep ==
    /\ \A v \in ValuePtrs :
            /\ values'[v].Block = values[v].Block
            /\ \A b \in BlockPtrs : Count(blocks'[b].Values, v) = Count(blocks[b].Values, v)
    /\ \A p \in BlockPtrs :
            /\ blocks'[p].Func = blocks[p].Func
            /\ \A f \in Funcs : Count(funcs'[f].Blocks, p) = Count(funcs[f].Blocks, p)

BackReferenceConsistency ==
    /\ []BackReferenceState
    /\ [][BackReferenceStep]_vars

BackReferencesSet ==
    /\ Len(blocks) = 2
    /\ Len(values) = 3
    /\ blocks[1].Func # blocks[2].Func
    /\ blocks[1].Values # <<>>
    /\ blocks[2].Values # <<>>

\* C9 (stated as claimed): the Value a constructor or ConstInt returns has
\* Line equal to the line argument of the call.
LineRecorded ==
    (last.name \in ValueCalls /\ ReturnedValue) => values[last.v].Line = last.line

\* C10 (stated as claimed): the Args of every Value built with 0, 1, 2 or 3
\* operands is the prefix of the Value's own argstorage of length the
\* operand count.
InlineStorageUpTo3 ==
    ReturnedValue => values[last.v].Args = SliceArgstorage(Len(last.args))

\* C10 (amended): with 0, 1 or 2 operands Args is that prefix of argstorage;
\* NewValue3 backs Args with a separately allocated array of its 3 operands.
InlineStorageUpTo2 ==
    ReturnedValue =>
        IF Len(last.args) <= 2
        THEN values[last.v].Args = SliceArgstorage(Len(last.args))
        ELSE /\ last.name = "NewValue3"
             /\ values[last.v].Args = SliceLiteral(last.args)

TwoOperandsInline ==
    /\ last.name = "NewValue2"
    /\ ReturnedValue
    /\ last.args[1] # last.args[2]
    /\ \E w \in ValuePtrs : values[w].Args.arr = "heap"

====
